---- MODULE Spec2Model ----
(***************************************************************************)
(* CellEditorOptions (the notebook cell editor options adapter) and the    *)
(* two line-number toggle actions of                                       *)
(* src/vs/workbench/contrib/notebook/browser/view/renderers/               *)
(* cellEditorOptions.ts.                                                   *)
(*                                                                         *)
(* An options object is a function from option keys to values; a key that  *)
(* the object does not define is not in its DOMAIN.  A key is the sequence *)
(* of the dot-separated segments of its name: "editor.fontSize" is         *)
(* <<"editor", "fontSize">> and "fontSize" is <<"fontSize">>, so that the  *)
(* prefix test and the prefix strip of the customization keys are          *)
(* computed, not assumed.                                                  *)
(***************************************************************************)
EXTENDS Integers, Sequences, FiniteSets, TLC

VARIABLES
    notebookLineNumbers,    \* configurationService.getValue('notebook.lineNumbers')
    editorConfig,           \* configurationService.getValue('editor', {overrideIdentifier: language})
    layoutConfiguration,    \* notebookOptions.getLayoutConfiguration()
    viewModel,              \* notebookEditor.viewModel: NoModel or a view model
    isReadOnly,             \* notebookEditor.viewModel.options.isReadOnly (FALSE without a model)
    _localDisposableStore,  \* the view models whose onDidChangeOptions the adapter listens to
    disposed,               \* the adapter's dispose() has run
    _value,                 \* CellEditorOptions._value
    _lineNumbers,           \* CellEditorOptions._lineNumbers
    triggers,               \* triggering events the adapter's sources have emitted
    setCalls,               \* calls of setLineNumbers
    recomputes,             \* stores of a recomputed value by _recomputeOptions
    fires,                  \* calls of _onDidChange.fire()
    cells,                  \* each cell's lineNumbers property
    activeEditor,           \* the notebook editor of the active editor pane
    activeCell,             \* that editor's getActiveCell()
    last                    \* what the latest operation was and did

vars == <<notebookLineNumbers, editorConfig, layoutConfiguration, viewModel, isReadOnly,
          _localDisposableStore, disposed, _value, _lineNumbers, triggers, setCalls,
          recomputes, fires, cells, activeEditor, activeCell, last>>

configVars == <<notebookLineNumbers, editorConfig>>
editorVars == <<viewModel, isReadOnly>>
cellVars == <<cells, activeEditor, activeCell>>

----------------------------------------------------------------------------
(* Bounds and input sets *)

MaxCalls == 2

Key(name) == <<name>>

LineNumberModes == {"on", "off", "inherit"}

NoModel == "none"
ViewModels == {"vm1", "vm2"}

NoCell == "none"
Cells == {"c1", "c2", "c3"}

\* Language-scoped generic editor options the configuration can hold.
EditorConfigInputs ==
    { (Key("fontSize") :> 14) @@ (Key("wordWrap") :> "on"),
      (Key("fontSize") :> 12) @@ (Key("lineNumbers") :> "relative")
        @@ (Key("folding") :> TRUE) @@ (Key("minimap") :> [enabled |-> TRUE])
        @@ (Key("padding") :> [top |-> 0, bottom |-> 0]) @@ (Key("readOnly") :> TRUE) }

\* editorOptionsCustomizations mappings a layout configuration can hold.
CustomizationInputs ==
    { (<<"editor", "fontSize">> :> 20),
      (<<"editor", "folding">> :> TRUE) @@ (<<"fontSize">> :> 99)
        @@ (<<"notebook", "wordWrap">> :> "off") @@ (<<"editorfontSize">> :> 30)
        @@ (<<"Editor", "wordWrap">> :> "off"),
      (<<"editor", "lineNumbers">> :> "on")
        @@ (<<"editor", "padding">> :> [top |-> 0, bottom |-> 0])
        @@ (<<"editor", "readOnly">> :> TRUE)
        @@ (<<"editor", "minimap">> :> [enabled |-> TRUE])
        @@ (<<"editor", "scrollbar", "horizontal">> :> "hidden")
        @@ (<<"editor">> :> 1) }

\* Layout configurations: editorOptionsCustomizations is an optional property.
LayoutInputs ==
    { [k \in {} |-> 0] } \cup { [editorOptionsCustomizations |-> c] : c \in CustomizationInputs }

\* Results of notebookOptions.computeEditorPadding(internalMetadata).
PaddingInputs == { [top |-> 12, bottom |-> 12], [top |-> 6, bottom |-> 28] }

----------------------------------------------------------------------------
(* CellEditorOptions *)

fixedEditorOptions ==
    (Key("scrollBeyondLastLine") :> FALSE)
    @@ (Key("scrollbar") :> [verticalScrollbarSize |-> 14, horizontal |-> "auto",
                             useShadows |-> TRUE, verticalHasArrows |-> FALSE,
                             horizontalHasArrows |-> FALSE,
                             alwaysConsumeMouseWheel |-> FALSE])
    @@ (Key("renderLineHighlightOnlyWhenFocus") :> TRUE)
    @@ (Key("overviewRulerLanes") :> 0)
    @@ (Key("selectOnLineNumbers") :> FALSE)
    @@ (Key("lineNumbers") :> "off")
    @@ (Key("lineDecorationsWidth") :> 0)
    @@ (Key("folding") :> FALSE)
    @@ (Key("fixedOverflowWidgets") :> TRUE)
    @@ (Key("minimap") :> [enabled |-> FALSE])
    @@ (Key("renderValidationDecorations") :> "on")
    @@ (Key("lineNumbersMinChars") :> 3)

\* The object spread {...a, ...b}: b's keys win.
Spread(a, b) ==
    [k \in (DOMAIN a) \cup (DOMAIN b) |-> IF k \in DOMAIN b THEN b[k] ELSE a[k]]

\* key.indexOf('editor.') === 0
HasEditorPrefix(key) == Len(key) >= 2 /\ key[1] = "editor"

\* Faulty variant: the prefix test is missing, and the first segment of every dotted key is
\* stripped whatever it is.
EditorOptionsOverrideUnfiltered(raw) ==
    [k \in { Tail(r) : r \in { r \in DOMAIN raw : Len(r) >= 2 } }
        |-> raw[CHOOSE r \in DOMAIN raw : Len(r) >= 2 /\ Tail(r) = k]]

\* The loop that builds editorOptionsOverride: key.substr(7) of each prefixed key.
EditorOptionsOverride(raw) ==
    [k \in { Tail(r) : r \in { r \in DOMAIN raw : HasEditorPrefix(r) } }
        |-> raw[<<"editor">> \o k]]

\* layoutConfig.editorOptionsCustomizations ?? {}
EditorOptionsOverrideRaw(layoutConfig) ==
    IF "editorOptionsCustomizations" \in DOMAIN layoutConfig
    THEN layoutConfig.editorOptionsCustomizations
    ELSE [k \in {} |-> 0]

\* this.notebookEditor.viewModel?.options.isReadOnly ?? false
ReadOnlyFlag(vm, ro) == IF vm = NoModel THEN FALSE ELSE ro

\* Faulty variant: folding is left at the fixed default instead of being derived.
LineNumbersPairFoldingOff(lineNumbers) ==
    (Key("lineNumbers") :> lineNumbers) @@ (Key("folding") :> FALSE)

\* { lineNumbers, folding: lineNumbers === 'on' }
LineNumbersPair(lineNumbers) ==
    (Key("lineNumbers") :> lineNumbers) @@ (Key("folding") :> (lineNumbers = "on"))

\* Faulty variant: the customization overrides are spread last, over padding and readOnly.
_computeEditorOptionsOverridesLast(cfgLineNumbers, editorOptions, layoutConfig, vm, ro) ==
    LET renderLineNumbers == cfgLineNumbers = "on"
        lineNumbers == IF renderLineNumbers THEN "on" ELSE "off"
        editorOptionsOverride == EditorOptionsOverride(EditorOptionsOverrideRaw(layoutConfig))
    IN  Spread(Spread(Spread(Spread(Spread(
            editorOptions,
            fixedEditorOptions),
            LineNumbersPair(lineNumbers)),
            (Key("padding") :> [top |-> 12, bottom |-> 12])),
            (Key("readOnly") :> ReadOnlyFlag(vm, ro))),
            editorOptionsOverride)

_computeEditorOptions(cfgLineNumbers, editorOptions, layoutConfig, vm, ro) ==
    LET renderLineNumbers == cfgLineNumbers = "on"
        lineNumbers == IF renderLineNumbers THEN "on" ELSE "off"
        editorOptionsOverride == EditorOptionsOverride(EditorOptionsOverrideRaw(layoutConfig))
    IN  Spread(Spread(Spread(Spread(Spread(
            editorOptions,
            fixedEditorOptions),
            LineNumbersPair(lineNumbers)),
            editorOptionsOverride),
            (Key("padding") :> [top |-> 12, bottom |-> 12])),
            (Key("readOnly") :> ReadOnlyFlag(vm, ro)))

\* What a handler did: the value it left in _value, the values _value held at
\* each _onDidChange.fire(), and how many recomputations it stored.
NoEffect(cur) == [value |-> cur, seen |-> <<>>, recomputed |-> 0]

\* Faulty variant: the notification is fired before the recomputed value is stored.
_recomputeOptionsFiresFirst(computed) ==
    [value |-> computed, seen |-> <<_value>>, recomputed |-> 1]

\* Faulty variant: an explicit mode stored by setLineNumbers survives a recomputation.
_recomputeOptionsKeepsMode(computed) ==
    LET value == IF _lineNumbers = "inherit" THEN computed
                 ELSE Spread(computed, LineNumbersPair(_lineNumbers))
    IN  [value |-> value, seen |-> <<value>>, recomputed |-> 1]

\* _recomputeOptions: store the recomputed value, then fire.
_recomputeOptions(computed) == [value |-> computed, seen |-> <<computed>>, recomputed |-> 1]

\* A listener that is no longer registered is not called.
Deliver(registered, effect, cur) == IF registered THEN effect ELSE NoEffect(cur)

\* Faulty variant: the store of the view-model subscription is not registered with
\* the adapter.
_registerWithoutLocalStore ==
    {"_onDidChange", "onDidChangeConfiguration", "onDidChangeOptions", "onDidChangeModel"}

\* What the adapter passes to this._register, to be disposed with it.
_register ==
    {"_onDidChange", "_localDisposableStore", "onDidChangeConfiguration",
     "onDidChangeOptions", "onDidChangeModel"}

\* A subscription of the adapter is live until the adapter is disposed, if it was
\* registered.
Live(subscription) == ~(disposed /\ subscription \in _register)

\* Faulty variant: only changes of the 'editor' namespace are handled.
onDidChangeConfigurationEditorOnly(e, computed, cur) ==
    IF e.editor THEN _recomputeOptions(computed) ELSE NoEffect(cur)

\* The onDidChangeConfiguration listener; e says which namespaces the change affects.
onDidChangeConfiguration(e, computed, cur) ==
    IF e.editor \/ e.notebook THEN _recomputeOptions(computed) ELSE NoEffect(cur)

\* Faulty variant: every notebook-options change is handled, whatever its flags.
onDidChangeOptionsUnfiltered(e, computed, cur) == _recomputeOptions(computed)

\* The notebookOptions.onDidChangeOptions listener; e holds the event's flags.
onDidChangeOptions(e, computed, cur) ==
    IF e.cellStatusBarVisibility \/ e.editorTopPadding
         \/ e.editorOptionsCustomizations \/ e.cellBreakpointMargin
    THEN _recomputeOptions(computed)
    ELSE NoEffect(cur)

\* Faulty variant: the store is not cleared before the new subscription is added.
onDidChangeModelStoreKeepsOld(vm) ==
    IF vm # NoModel THEN _localDisposableStore \cup {vm} ELSE _localDisposableStore

\* The notebookEditor.onDidChangeModel listener: the subscriptions it leaves in
\* _localDisposableStore, and its effect on the value.
onDidChangeModelStore(vm) == IF vm # NoModel THEN {vm} ELSE {}

onDidChangeModel(vm, computed, cur) ==
    IF vm # NoModel THEN _recomputeOptions(computed) ELSE NoEffect(cur)

\* The viewModel.onDidChangeOptions listener.
onDidChangeViewModelOptions(computed) == _recomputeOptions(computed)

\* Faulty variant: 'inherit' leaves lineNumbers and folding as they are.
setLineNumbersInheritKeeps(cur, mode, cfgLineNumbers) ==
    LET written == IF mode = "inherit" THEN cur
                   ELSE Spread(cur, LineNumbersPair(mode))
    IN  [value |-> written, seen |-> <<written>>, recomputed |-> 0]

\* Faulty variant: the notification is skipped when the value did not change.
setLineNumbersDirtyChecked(cur, mode, cfgLineNumbers) ==
    LET lineNumbers ==
            IF mode = "inherit"
            THEN (IF cfgLineNumbers = "on" THEN "on" ELSE "off")
            ELSE mode
        written == Spread(cur, LineNumbersPair(lineNumbers))
    IN  [value |-> written, seen |-> IF written = cur THEN <<>> ELSE <<written>>,
         recomputed |-> 0]

\* Faulty variant: the fixed options are applied again when the pair is written.
setLineNumbersResetsFixed(cur, mode, cfgLineNumbers) ==
    LET lineNumbers ==
            IF mode = "inherit"
            THEN (IF cfgLineNumbers = "on" THEN "on" ELSE "off")
            ELSE mode
        written == Spread(Spread(cur, fixedEditorOptions), LineNumbersPair(lineNumbers))
    IN  [value |-> written, seen |-> <<written>>, recomputed |-> 0]

\* setLineNumbers: the value it writes and the value the one fire() shows.
setLineNumbers(cur, mode, cfgLineNumbers) ==
    LET lineNumbers ==
            IF mode = "inherit"
            THEN (IF cfgLineNumbers = "on" THEN "on" ELSE "off")
            ELSE mode
        written == [k \in (DOMAIN cur) \cup {Key("lineNumbers"), Key("folding")} |->
                      IF k = Key("lineNumbers") THEN lineNumbers
                      ELSE IF k = Key("folding") THEN (lineNumbers = "on")
                      ELSE cur[k]]
    IN  [value |-> written, seen |-> <<written>>, recomputed |-> 0]

\* Faulty variant: the default padding is returned whether or not metadata is given.
getValueDefaultPadding(cur, hasMetadata, computedPadding) ==
    Spread(cur, (Key("padding") :> [top |-> 12, bottom |-> 12]))

\* getValue(internalMetadata?): computedPadding is what
\* notebookOptions.computeEditorPadding(internalMetadata) returns.
getValue(cur, hasMetadata, computedPadding) ==
    Spread(cur, (Key("padding") :>
                    IF hasMetadata THEN computedPadding ELSE [top |-> 12, bottom |-> 12]))

----------------------------------------------------------------------------
(* The toggle actions *)

\* Faulty variant: the action switches line numbers on whatever the setting is.
ToggleLineNumberActionRunAlwaysOn(cfgLineNumbers) == "on"

\* ToggleLineNumberAction.run: the value it passes to updateValue.
ToggleLineNumberActionRun(cfgLineNumbers) ==
    LET renderLiNumbers == cfgLineNumbers = "on"
    IN  IF renderLiNumbers THEN "off" ELSE "on"

\* The configuration writer: the value is stored and the change is announced as a
\* change of the 'notebook' namespace.
updateValue(written) == [value |-> written, event |-> [editor |-> FALSE, notebook |-> TRUE]]

\* Faulty variant: the active cell is preferred to the cell of the invocation context.
TargetCellPreferringActive(contextCell, editor, active) ==
    IF editor = "hasModel" /\ active # NoCell THEN active ELSE contextCell

\* ToggleActiveLineNumberAction.run: the cell it acts on (NoCell: none).
TargetCell(contextCell, editor, active) ==
    IF contextCell # NoCell THEN contextCell
    ELSE IF editor = "none" \/ editor = "noModel" THEN NoCell
    ELSE active

\* Faulty variant: 'inherit' is taken as off, whatever the notebook-wide setting.
ToggledCellLineNumbersInheritIsOff(cellLineNumbers, cfgLineNumbers) ==
    IF cellLineNumbers = "on" THEN "off" ELSE "on"

\* ToggleActiveLineNumberAction.run: the mode it writes to the target cell.
ToggledCellLineNumbers(cellLineNumbers, cfgLineNumbers) ==
    LET renderLineNumbers == cfgLineNumbers = "on"
        currentLineNumberIsOn ==
            cellLineNumbers = "on" \/ (cellLineNumbers = "inherit" /\ renderLineNumbers)
    IN  IF currentLineNumberIsOn THEN "off" ELSE "on"

\* Faulty variant: every cell of the notebook is toggled, not the target alone.
ToggleActiveLineNumberActionRunAll(contextCell, editor, active, cellModes, cfgLineNumbers) ==
    LET cell == TargetCell(contextCell, editor, active)
    IN  [cells |-> IF cell # NoCell
                   THEN [c \in DOMAIN cellModes |->
                            ToggledCellLineNumbers(cellModes[c], cfgLineNumbers)]
                   ELSE cellModes,
         target |-> cell,
         threw |-> FALSE]

\* ToggleActiveLineNumberAction.run: the cells after the call, and whether it threw.
ToggleActiveLineNumberActionRun(contextCell, editor, active, cellModes, cfgLineNumbers) ==
    LET cell == TargetCell(contextCell, editor, active)
    IN  [cells |-> IF cell # NoCell
                   THEN [cellModes EXCEPT
                            ![cell] = ToggledCellLineNumbers(cellModes[cell], cfgLineNumbers)]
                   ELSE cellModes,
         target |-> cell,
         threw |-> FALSE]

----------------------------------------------------------------------------
(* The state machine *)

\* The adapter's part of a step: the handler's effect is stored and counted. last
\* keeps how many recomputations and notifications the step made, whether every
\* notification found the step's final value already stored, and whether that value
\* is the one the step began with.
Commit(handled, info) ==
    \E effect \in {handled} :
        /\ _value' = effect.value
        /\ recomputes' = recomputes + effect.recomputed
        /\ fires' = fires + Len(effect.seen)
        /\ last' = info @@ [recomputed |-> effect.recomputed, fired |-> Len(effect.seen),
                            stored |-> \A i \in DOMAIN effect.seen :
                                          effect.seen[i] = effect.value,
                            same |-> (effect.value = _value)]

\* A triggering event (one that passes the adapter's filters) is counted, and the
\* number of counted events and calls is bounded.
Count(triggering) ==
    /\ triggering => triggers + setCalls < MaxCalls
    /\ triggers' = triggers + (IF triggering THEN 1 ELSE 0)

Constructed(ln, ed, lc, vm, ro) ==
    /\ notebookLineNumbers = ln
    /\ editorConfig = ed
    /\ layoutConfiguration = lc
    /\ viewModel = vm
    /\ isReadOnly = ro
    /\ _localDisposableStore = (IF vm # NoModel THEN {vm} ELSE {})
    /\ disposed = FALSE
    /\ _value = _computeEditorOptions(ln, ed, lc, vm, ro)
    /\ _lineNumbers = "inherit"
    /\ triggers = 0 /\ setCalls = 0 /\ recomputes = 0 /\ fires = 0
    /\ last = [op |-> "constructor", recomputed |-> 0, fired |-> 0, stored |-> TRUE,
               same |-> FALSE]

EditorStates ==
    { <<NoModel, FALSE>> } \cup (ViewModels \X BOOLEAN)

Init ==
    /\ \E ln \in {"on", "off"}, ed \in EditorConfigInputs, lc \in LayoutInputs,
          es \in EditorStates :
            Constructed(ln, ed, lc, es[1], es[2])
    /\ cells = [c \in Cells |-> "inherit"]
    /\ activeEditor = "none"
    /\ activeCell = NoCell

ConfigurationChange ==
    \E e \in [editor : BOOLEAN, notebook : BOOLEAN],
       ln \in {"on", "off"}, ed \in EditorConfigInputs :
        /\ e.notebook \/ ln = notebookLineNumbers
        /\ e.editor \/ ed = editorConfig
        /\ notebookLineNumbers' = ln
        /\ editorConfig' = ed
        /\ UNCHANGED <<layoutConfiguration, editorVars, _localDisposableStore, disposed,
                       _lineNumbers, setCalls, cellVars>>
        /\ Count(e.editor \/ e.notebook)
        /\ Commit(Deliver(Live("onDidChangeConfiguration"),
                          onDidChangeConfiguration(e,
                              _computeEditorOptions(ln, ed, layoutConfiguration,
                                                    viewModel, isReadOnly),
                              _value),
                          _value),
                  [op |-> "configuration", event |-> e])

\* The flags of a notebook-options change event: one flag set, or none.
LayoutFlags ==
    {"cellStatusBarVisibility", "editorTopPadding", "editorOptionsCustomizations",
     "cellBreakpointMargin", "compactView"}

LayoutEvent(set) ==
    [cellStatusBarVisibility |-> "cellStatusBarVisibility" \in set,
     editorTopPadding |-> "editorTopPadding" \in set,
     editorOptionsCustomizations |-> "editorOptionsCustomizations" \in set,
     cellBreakpointMargin |-> "cellBreakpointMargin" \in set,
     compactView |-> "compactView" \in set]

LayoutEvents == { LayoutEvent({}) } \cup { LayoutEvent({f}) : f \in LayoutFlags }

LayoutFlagSet(e) ==
    e.cellStatusBarVisibility \/ e.editorTopPadding
        \/ e.editorOptionsCustomizations \/ e.cellBreakpointMargin

NotebookOptionsChange ==
    \E e \in LayoutEvents, lc \in LayoutInputs :
        /\ e.editorOptionsCustomizations \/ lc = layoutConfiguration
        /\ layoutConfiguration' = lc
        /\ UNCHANGED <<configVars, editorVars, _localDisposableStore, disposed,
                       _lineNumbers, setCalls, cellVars>>
        /\ Count(LayoutFlagSet(e))
        /\ Commit(Deliver(Live("onDidChangeOptions"),
                          onDidChangeOptions(e,
                              _computeEditorOptions(notebookLineNumbers, editorConfig, lc,
                                                    viewModel, isReadOnly),
                              _value),
                          _value),
                  [op |-> "layout", event |-> e])

ModelChange ==
    \E es \in EditorStates :
        /\ viewModel' = es[1]
        /\ isReadOnly' = es[2]
        /\ _localDisposableStore' =
              IF Live("onDidChangeModel") THEN onDidChangeModelStore(es[1])
              ELSE _localDisposableStore
        /\ UNCHANGED <<configVars, layoutConfiguration, disposed, _lineNumbers, setCalls,
                       cellVars>>
        /\ Count(es[1] # NoModel)
        /\ Commit(Deliver(Live("onDidChangeModel"),
                          onDidChangeModel(es[1],
                              _computeEditorOptions(notebookLineNumbers, editorConfig,
                                                    layoutConfiguration, es[1], es[2]),
                              _value),
                          _value),
                  [op |-> "model", from |-> viewModel])

ViewModelOptionsChange ==
    \E vm \in ViewModels, ro \in BOOLEAN :
        /\ vm = viewModel \/ ro = isReadOnly
        /\ isReadOnly' = ro
        /\ UNCHANGED <<configVars, layoutConfiguration, viewModel, _localDisposableStore,
                       disposed, _lineNumbers, setCalls, cellVars>>
        /\ Count(vm = viewModel)
        /\ Commit(Deliver(vm \in _localDisposableStore,
                          onDidChangeViewModelOptions(
                              _computeEditorOptions(notebookLineNumbers, editorConfig,
                                                    layoutConfiguration, viewModel, ro)),
                          _value),
                  [op |-> "viewModelOptions", source |-> vm,
                   swappedFrom |-> IF last.op = "model" THEN last.from ELSE NoModel])

SetLineNumbers ==
    \E mode \in LineNumberModes :
        /\ triggers + setCalls < MaxCalls
        /\ setCalls' = setCalls + 1
        /\ _lineNumbers' = mode
        /\ UNCHANGED <<configVars, layoutConfiguration, editorVars, _localDisposableStore,
                       disposed, triggers, cellVars>>
        /\ Commit(setLineNumbers(_value, mode, notebookLineNumbers),
                  [op |-> "setLineNumbers", mode |-> mode, earlier |-> _lineNumbers,
                   after |-> last.op])

GetValue ==
    \E hasMetadata \in BOOLEAN, computedPadding \in PaddingInputs :
        /\ UNCHANGED <<configVars, layoutConfiguration, editorVars, _localDisposableStore,
                       disposed, _lineNumbers, triggers, setCalls, cellVars>>
        /\ Commit(NoEffect(_value),
                  [op |-> "getValue", hasMetadata |-> hasMetadata,
                   computedPadding |-> computedPadding,
                   returned |-> getValue(_value, hasMetadata, computedPadding)])

Dispose ==
    /\ ~disposed
    /\ disposed' = TRUE
    /\ _localDisposableStore' =
          IF "_localDisposableStore" \in _register THEN {} ELSE _localDisposableStore
    /\ UNCHANGED <<configVars, layoutConfiguration, editorVars, _lineNumbers, triggers,
                   setCalls, cellVars>>
    /\ Commit(NoEffect(_value), [op |-> "dispose"])

ToggleLineNumberAction ==
    LET write == updateValue(ToggleLineNumberActionRun(notebookLineNumbers))
    IN  /\ notebookLineNumbers' = write.value
        /\ UNCHANGED <<editorConfig, layoutConfiguration, editorVars, _localDisposableStore,
                       disposed, _lineNumbers, setCalls, cellVars>>
        /\ Count(TRUE)
        /\ Commit(Deliver(Live("onDidChangeConfiguration"),
                          onDidChangeConfiguration(write.event,
                              _computeEditorOptions(write.value, editorConfig,
                                                    layoutConfiguration, viewModel,
                                                    isReadOnly),
                              _value),
                          _value),
                  [op |-> "toggleLineNumbers", read |-> notebookLineNumbers,
                   after |-> last.op])

\* The active editor pane changes: no notebook editor, one without a model, or one
\* with a model and its active cell (if any).
ActiveEditorStates ==
    { <<"none", NoCell>>, <<"noModel", NoCell>> }
        \cup { <<"hasModel", c>> : c \in Cells \cup {NoCell} }

ActiveEditorChange ==
    \E as \in ActiveEditorStates :
        /\ activeEditor' = as[1]
        /\ activeCell' = as[2]
        /\ UNCHANGED <<configVars, layoutConfiguration, editorVars, _localDisposableStore,
                       disposed, _lineNumbers, triggers, setCalls, cells>>
        /\ Commit(NoEffect(_value), [op |-> "activeEditor"])

ToggleActiveLineNumberAction ==
    \E contextCell \in Cells \cup {NoCell} :
        \E run \in { ToggleActiveLineNumberActionRun(contextCell, activeEditor, activeCell,
                                                     cells, notebookLineNumbers) } :
            /\ cells' = run.cells
            /\ UNCHANGED <<configVars, layoutConfiguration, editorVars,
                           _localDisposableStore, disposed, _lineNumbers, triggers,
                           setCalls, activeEditor, activeCell>>
            /\ Commit(NoEffect(_value),
                      [op |-> "toggleCellLineNumbers", context |-> contextCell,
                       target |-> run.target, threw |-> run.threw,
                       before |-> cells])

Next ==
    \/ ConfigurationChange
    \/ NotebookOptionsChange
    \/ ModelChange
    \/ ViewModelOptionsChange
    \/ SetLineNumbers
    \/ GetValue
    \/ ToggleLineNumberAction

Spec == Init /\ [][Next]_vars

\* The same, with the adapter's disposal.
\* An adapter constructed without layout customizations, and later disposed.
InitDisposal ==
    /\ \E ln \in {"on", "off"}, es \in EditorStates :
            Constructed(ln, (Key("fontSize") :> 14) @@ (Key("wordWrap") :> "on"),
                        [k \in {} |-> 0], es[1], es[2])
    /\ cells = [c \in Cells |-> "inherit"]
    /\ activeEditor = "none"
    /\ activeCell = NoCell

NextDisposal == Next \/ Dispose

SpecDisposal == InitDisposal /\ [][NextDisposal]_vars

\* The toggle actions on the cells of a notebook, beside one adapter.
InitCells ==
    /\ \E ln \in {"on", "off"} :
            Constructed(ln, (Key("fontSize") :> 14) @@ (Key("wordWrap") :> "on"),
                        [k \in {} |-> 0], NoModel, FALSE)
    /\ cells \in [Cells -> LineNumberModes]
    /\ \E as \in ActiveEditorStates : activeEditor = as[1] /\ activeCell = as[2]

NextCells ==
    \/ ToggleLineNumberAction
    \/ ToggleActiveLineNumberAction
    \/ ActiveEditorChange

SpecCells == InitCells /\ [][NextCells]_vars

----------------------------------------------------------------------------
(* Properties *)

LineNumbersOf(options) == options[Key("lineNumbers")]
FoldingOf(options) == options[Key("folding")]
PaddingOf(options) == options[Key("padding")]
ReadOnlyOf(options) == options[Key("readOnly")]

\* The customizations of the current layout configuration, as configured.
Customizations ==
    IF "editorOptionsCustomizations" \in DOMAIN layoutConfiguration
    THEN layoutConfiguration.editorOptionsCustomizations
    ELSE [k \in {} |-> 0]

\* The step that led here stored a freshly computed value (the constructor's
\* computation included).
Recomputed == last.op = "constructor" \/ last.recomputed > 0

CustomizesLineNumbersOrFolding ==
    <<"editor", "lineNumbers">> \in DOMAIN Customizations
        \/ <<"editor", "folding">> \in DOMAIN Customizations

\* C1 as stated: after any recomputation and after any setLineNumbers call, whatever
\* the merge inputs, folding === (lineNumbers === 'on').
C1_FoldingAlwaysFollowsLineNumbers ==
    (last.recomputed > 0 \/ last.op = "setLineNumbers")
        => FoldingOf(_value) = (LineNumbersOf(_value) = "on")

\* C1 amended: after any setLineNumbers call, and after any recomputation whose layout
\* customizations define neither 'editor.lineNumbers' nor 'editor.folding',
\* folding === (lineNumbers === 'on').
C1_FoldingFollowsLineNumbers ==
    (last.op = "setLineNumbers" \/ (Recomputed /\ ~CustomizesLineNumbersOrFolding))
        => FoldingOf(_value) = (LineNumbersOf(_value) = "on")

C1_Witness ==
    /\ last.recomputed > 0
    /\ ~CustomizesLineNumbersOrFolding
    /\ Key("folding") \in DOMAIN editorConfig
    /\ LineNumbersOf(_value) = "on"
    /\ FoldingOf(_value) = TRUE

\* The sources of a recomputation, lowest priority first.
MergeSources ==
    << editorConfig,
       fixedEditorOptions,
       (Key("lineNumbers") :> (IF notebookLineNumbers = "on" THEN "on" ELSE "off"))
          @@ (Key("folding") :> (notebookLineNumbers = "on")),
       EditorOptionsOverride(Customizations),
       (Key("padding") :> [top |-> 12, bottom |-> 12]),
       (Key("readOnly") :> (IF viewModel = NoModel THEN FALSE ELSE isReadOnly)) >>

Defining(k) == { i \in DOMAIN MergeSources : k \in DOMAIN MergeSources[i] }

HighestDefining(k) == CHOOSE i \in Defining(k) : \A j \in Defining(k) : j <= i

\* C2: a recomputation stores, for every option key, the value of the
\* highest-priority source that defines it (generic editor options < FixedOptions
\* < derived lineNumbers/folding < customization overrides < padding < readOnly), so
\* padding and readOnly are never clobbered.
C2_MergePriority ==
    Recomputed =>
        /\ DOMAIN _value = UNION { DOMAIN MergeSources[i] : i \in DOMAIN MergeSources }
        /\ \A k \in DOMAIN _value : _value[k] = MergeSources[HighestDefining(k)][k]
        /\ PaddingOf(_value) = [top |-> 12, bottom |-> 12]
        /\ ReadOnlyOf(_value) = (IF viewModel = NoModel THEN FALSE ELSE isReadOnly)

C2_Witness ==
    /\ last.recomputed > 0
    /\ <<"editor", "padding">> \in DOMAIN Customizations
    /\ <<"editor", "readOnly">> \in DOMAIN Customizations
    /\ Customizations[<<"editor", "readOnly">>] = TRUE
    /\ Key("padding") \in DOMAIN editorConfig
    /\ PaddingOf(_value) = [top |-> 12, bottom |-> 12]
    /\ ReadOnlyOf(_value) = FALSE
    /\ _value[Key("minimap")] = [enabled |-> TRUE]

\* C3: getValue() returns padding {top:12, bottom:12}, getValue(metadata) returns the
\* padding computeEditorPadding(metadata) gave; every other key of the returned value
\* is the cached one, and the call changes neither the cached value nor the number of
\* recomputations or notifications.
C3_GetValueOverridesPaddingOnly ==
    [][ last'.op = "getValue" =>
          /\ PaddingOf(last'.returned) =
                (IF last'.hasMetadata THEN last'.computedPadding
                 ELSE [top |-> 12, bottom |-> 12])
          /\ DOMAIN last'.returned = DOMAIN _value
          /\ \A k \in DOMAIN _value \ {Key("padding")} : last'.returned[k] = _value[k]
          /\ _value' = _value
          /\ recomputes' = recomputes
          /\ fires' = fires ]_vars

C3_Witness ==
    /\ last.op = "getValue"
    /\ last.hasMetadata
    /\ last.computedPadding = [top |-> 6, bottom |-> 28]
    /\ PaddingOf(last.returned) = [top |-> 6, bottom |-> 28]
    /\ PaddingOf(_value) = [top |-> 12, bottom |-> 12]
    /\ last.fired = 0

\* C4: setLineNumbers(mode) leaves lineNumbers equal to mode for 'on' and 'off', and
\* for 'inherit' equal to the notebook-wide setting read at the call ('on' if it is
\* 'on', else 'off'), whatever an earlier setLineNumbers call wrote.
C4_SetLineNumbersResult ==
    last.op = "setLineNumbers" =>
        LineNumbersOf(_value) =
            (IF last.mode \in {"on", "off"} THEN last.mode
             ELSE IF notebookLineNumbers = "on" THEN "on" ELSE "off")

\* setLineNumbers('on') followed immediately by setLineNumbers('inherit'), setting 'off'.
C4_Witness ==
    /\ last.op = "setLineNumbers"
    /\ last.mode = "inherit"
    /\ last.after = "setLineNumbers"
    /\ last.earlier = "on"
    /\ notebookLineNumbers = "off"
    /\ LineNumbersOf(_value) = "off"

\* C5: every call of setLineNumbers fires the change notification exactly once, after
\* the cached value has been written, also when the value is the one it was before.
C5_SetLineNumbersAlwaysFires ==
    [][ last'.op = "setLineNumbers" =>
          /\ fires' = fires + 1
          /\ last'.fired = 1
          /\ last'.stored ]_vars

C5_Witness ==
    /\ last.op = "setLineNumbers"
    /\ last.same
    /\ last.fired = 1
    /\ last.stored

\* The effective-on predicate of the per-cell menu entry's toggled condition.
EffectiveOn(cellLineNumbers, cfgLineNumbers) ==
    cellLineNumbers = "on" \/ (cellLineNumbers = "inherit" /\ cfgLineNumbers = "on")

\* C6: the per-cell toggle on a target cell sets its mode to 'off' if it is 'on', or
\* 'inherit' with the notebook-wide setting on, and to 'on' otherwise: the
\* effective-on predicate is negated and the mode is never 'inherit' afterwards.
C6_CellToggleTruthTable ==
    [][ (last'.op = "toggleCellLineNumbers" /\ last'.target # NoCell) =>
          LET before == cells[last'.target]
              after == cells'[last'.target]
              renderLineNumbers == notebookLineNumbers = "on"
              currentlyOn == before = "on" \/ (before = "inherit" /\ renderLineNumbers)
          IN  /\ after = (IF currentlyOn THEN "off" ELSE "on")
              /\ EffectiveOn(after, notebookLineNumbers')
                    = ~EffectiveOn(before, notebookLineNumbers)
              /\ after \in {"on", "off"} ]_vars

C6_Witness ==
    /\ last.op = "toggleCellLineNumbers"
    /\ last.target # NoCell
    /\ last.before[last.target] = "inherit"
    /\ notebookLineNumbers = "on"
    /\ cells[last.target] = "off"

\* C7: the per-cell toggle with no cell in the context and no resolvable target (no
\* active notebook editor, an editor without a model, no active cell) changes no
\* cell's mode and no configuration value and does not throw; a cell supplied in the
\* context is the target whatever the active editor and active cell are.
C7_CellToggleTarget ==
    [][ last'.op = "toggleCellLineNumbers" =>
          /\ ~last'.threw
          /\ (last'.context = NoCell
                /\ (activeEditor \in {"none", "noModel"} \/ activeCell = NoCell))
              => /\ cells' = cells
                 /\ notebookLineNumbers' = notebookLineNumbers
                 /\ editorConfig' = editorConfig
                 /\ layoutConfiguration' = layoutConfiguration
          /\ last'.context # NoCell
              => /\ last'.target = last'.context
                 /\ cells'[last'.context] # cells[last'.context]
                 /\ \A c \in Cells \ {last'.context} : cells'[c] = cells[c] ]_vars

C7_Witness ==
    /\ last.op = "toggleCellLineNumbers"
    /\ last.context = NoCell
    /\ activeEditor = "none"
    /\ last.target = NoCell
    /\ cells = last.before
    /\ ~last.threw

\* C8: the notebook-wide toggle writes 'off' when 'notebook.lineNumbers' is 'on' and
\* 'on' when it is 'off'; two consecutive invocations restore the original value.
C8_NotebookToggleFlips ==
    [][ last'.op = "toggleLineNumbers" =>
          /\ notebookLineNumbers = "on" => notebookLineNumbers' = "off"
          /\ notebookLineNumbers = "off" => notebookLineNumbers' = "on"
          /\ last.op = "toggleLineNumbers" => notebookLineNumbers' = last.read ]_vars

C8_Witness ==
    /\ last.op = "toggleLineNumbers"
    /\ last.after = "toggleLineNumbers"
    /\ last.read = "on"
    /\ notebookLineNumbers = "off"

\* The latest step handled an accepted triggering event: a configuration change in
\* 'editor' or 'notebook', one of the four layout flags, an option change of the
\* editor's view model, or a model swap to a model.
TriggeringEvent ==
    \/ last.op = "configuration" /\ (last.event.editor \/ last.event.notebook)
    \/ last.op = "toggleLineNumbers"
    \/ last.op = "layout"
          /\ (last.event.cellStatusBarVisibility \/ last.event.editorTopPadding
                \/ last.event.editorOptionsCustomizations
                \/ last.event.cellBreakpointMargin)
    \/ last.op = "viewModelOptions" /\ last.source = viewModel
    \/ last.op = "model" /\ viewModel # NoModel

\* C9: no batching or debouncing: each accepted triggering event causes exactly one
\* recomputation and then exactly one notification, with the new value stored when it
\* fires, so N events make N recomputations and N notifications (setLineNumbers adds
\* its own); the constructor's computation fires none.
C9_OneRecomputationPerEvent ==
    /\ (TriggeringEvent /\ ~disposed)
          => (last.recomputed = 1 /\ last.fired = 1 /\ last.stored)
    /\ ~disposed => (recomputes = triggers /\ fires = triggers + setCalls)
    /\ last.op = "constructor" => (last.fired = 0 /\ fires = 0 /\ recomputes = 0)

C9_Witness ==
    /\ TriggeringEvent
    /\ triggers = 2
    /\ recomputes = 2
    /\ fires = 2
    /\ ~last.same

\* What a recomputation yields when there are no customizations at all.
Uncustomized ==
    _computeEditorOptions(notebookLineNumbers, editorConfig, [k \in {} |-> 0],
                          viewModel, isReadOnly)

\* C10: in a recomputation exactly the customization keys that start with 'editor.'
\* contribute, each under its name without the prefix and with the customized value
\* (padding and readOnly excepted); other customization keys have no effect. With the
\* setting 'off' and {"editor.fontSize": 20}: fontSize 20, lineNumbers 'off'.
C10_EditorPrefixedCustomizations ==
    Recomputed =>
        /\ \A r \in DOMAIN Customizations :
              (Len(r) >= 2 /\ r[1] = "editor") => Tail(r) \in DOMAIN _value
        /\ \A k \in DOMAIN _value :
              IF (<<"editor">> \o k) \in DOMAIN Customizations
                    /\ k \notin {Key("padding"), Key("readOnly")}
              THEN _value[k] = Customizations[<<"editor">> \o k]
              ELSE k \in DOMAIN Uncustomized /\ _value[k] = Uncustomized[k]
        /\ (notebookLineNumbers = "off"
              /\ Customizations = (<<"editor", "fontSize">> :> 20))
            => (_value[Key("fontSize")] = 20 /\ LineNumbersOf(_value) = "off")

C10_Witness ==
    /\ last.recomputed > 0
    /\ notebookLineNumbers = "off"
    /\ Customizations = (<<"editor", "fontSize">> :> 20)
    /\ _value[Key("fontSize")] = 20
    /\ LineNumbersOf(_value) = "off"

----------------------------------------------------------------------------
(* Rebinding to the editor's model *)

\* C11 as stated: every time the bound editor's model changes, the old view-model
\* subscription is disposed, the only subscription left is one on the new view
\* model, and a recomputation with its notification has been made at once.
C11_EveryModelChangeRecomputes ==
    (last.op = "model" /\ ~disposed) =>
        /\ _localDisposableStore \subseteq {viewModel}
        /\ viewModel # NoModel => _localDisposableStore = {viewModel}
        /\ last.recomputed = 1
        /\ last.fired = 1
        /\ last.stored

\* C12: at most one view-model subscription is live and it is on the editor's
\* current view model; an option-change event of another (stale) view model causes
\* no recomputation and no notification.
C12_OnlyCurrentViewModelSubscribed ==
    /\ Cardinality(_localDisposableStore) <= 1
    /\ _localDisposableStore \subseteq {viewModel} \ {NoModel}
    /\ (last.op = "viewModelOptions" /\ last.source # viewModel)
          => (last.recomputed = 0 /\ last.fired = 0 /\ last.same)

C12_Witness ==
    /\ last.op = "viewModelOptions"
    /\ last.swappedFrom = last.source
    /\ last.source # viewModel
    /\ viewModel # NoModel
    /\ _localDisposableStore = {viewModel}
    /\ last.fired = 0

\* C13 as stated: after a recomputation, and after every model-change or view-model
\* option-change event has been handled, the cached readOnly is the editor's
\* current read-only flag, and FALSE when the editor has no model.
C13_ReadOnlyFollowsEditor ==
    (~disposed /\ (Recomputed \/ last.op \in {"model", "viewModelOptions"}))
        => ReadOnlyOf(_value) = (IF viewModel = NoModel THEN FALSE ELSE isReadOnly)

----------------------------------------------------------------------------
(* Filters, and what a recomputation depends on *)

\* The step is an event that the adapter's filters reject.
FilteredOut(l) ==
    \/ l.op = "configuration" /\ ~l.event.editor /\ ~l.event.notebook
    \/ l.op = "layout"
          /\ ~l.event.cellStatusBarVisibility /\ ~l.event.editorTopPadding
          /\ ~l.event.editorOptionsCustomizations /\ ~l.event.cellBreakpointMargin

\* C14: a configuration change that affects neither 'editor' nor 'notebook', and a
\* notebook-options change with none of the four flags set, leave the cached value
\* as it is, recompute nothing and fire no notification.
C14_FilteredEventsIgnored ==
    [][ FilteredOut(last') =>
          /\ _value' = _value
          /\ recomputes' = recomputes
          /\ fires' = fires
          /\ last'.recomputed = 0
          /\ last'.fired = 0 ]_vars

C14_Witness ==
    /\ last.op = "layout"
    /\ last.event.compactView
    /\ last.fired = 0
    /\ fires = 1
    /\ _lineNumbers = "on"
    /\ notebookLineNumbers = "off"
    /\ LineNumbersOf(_value) = "on"

\* The value determined by the state outside the adapter alone: for every key, the
\* value of the last merge source that defines it.
ExternalValue ==
    [k \in UNION { DOMAIN MergeSources[i] : i \in DOMAIN MergeSources } |->
        MergeSources[HighestDefining(k)][k]]

\* C15: the value an event's recomputation stores is determined by the notebook-wide
\* setting, the editor options, the layout customizations and the editor's read-only
\* flag alone, whatever the cached value and the mode stored by setLineNumbers were:
\* lineNumbers and folding come from the setting and the customizations again.
C15_RecomputationOfExternalStateOnly ==
    last.recomputed > 0 =>
        /\ _value = ExternalValue
        /\ LineNumbersOf(_value) =
              IF <<"editor", "lineNumbers">> \in DOMAIN Customizations
              THEN Customizations[<<"editor", "lineNumbers">>]
              ELSE notebookLineNumbers
        /\ FoldingOf(_value) =
              IF <<"editor", "folding">> \in DOMAIN Customizations
              THEN Customizations[<<"editor", "folding">>]
              ELSE notebookLineNumbers = "on"

C15_Witness ==
    /\ last.recomputed > 0
    /\ setCalls = 1
    /\ triggers = 1
    /\ _lineNumbers = "on"
    /\ notebookLineNumbers = "off"
    /\ ~CustomizesLineNumbersOrFolding
    /\ ~last.same
    /\ LineNumbersOf(_value) = "off"
    /\ ~FoldingOf(_value)

\* C16: when the notebook-wide toggle has written the flipped setting and its
\* configuration change has reached a live adapter, the adapter has recomputed once
\* and notified once, and its lineNumbers is the new setting unless a customization
\* defines 'editor.lineNumbers'.
C16_ToggleReachesAdapter ==
    (last.op = "toggleLineNumbers" /\ ~disposed) =>
        /\ notebookLineNumbers # last.read
        /\ last.recomputed = 1
        /\ last.fired = 1
        /\ last.stored
        /\ <<"editor", "lineNumbers">> \notin DOMAIN Customizations
              => LineNumbersOf(_value) = notebookLineNumbers

C16_Witness ==
    /\ last.op = "toggleLineNumbers"
    /\ last.read = "off"
    /\ notebookLineNumbers = "on"
    /\ <<"editor", "lineNumbers">> \notin DOMAIN Customizations
    /\ LineNumbersOf(_value) = "on"
    /\ ~last.same
    /\ last.fired = 1

----------------------------------------------------------------------------
(* Disposal, and what the writes leave alone *)

EventOps == {"configuration", "layout", "model", "viewModelOptions", "toggleLineNumbers"}

\* C17: disposing the adapter releases the view-model subscription with the others,
\* and no event of the configuration, the notebook options, the editor's model or a
\* view model that comes after the disposal recomputes, notifies or changes the
\* cached value.
C17_DisposedAdapterIgnoresEvents ==
    [][ /\ disposed' => _localDisposableStore' = {}
        /\ (disposed /\ last'.op \in EventOps) =>
              /\ _value' = _value
              /\ recomputes' = recomputes
              /\ fires' = fires
              /\ last'.recomputed = 0
              /\ last'.fired = 0 ]_vars

C17_Witness ==
    /\ disposed
    /\ last.op = "viewModelOptions"
    /\ last.source = viewModel
    /\ last.fired = 0
    /\ isReadOnly # ReadOnlyOf(_value)
    /\ triggers = 2
    /\ recomputes = 1

\* C18: setLineNumbers leaves every key of the cached value other than lineNumbers
\* and folding as it was (padding, readOnly and the customized keys included), adds
\* and removes no key, and writes no configuration value and no cell's mode.
C18_SetLineNumbersFrame ==
    [][ last'.op = "setLineNumbers" =>
          /\ DOMAIN _value' = DOMAIN _value
          /\ \A k \in DOMAIN _value \ {Key("lineNumbers"), Key("folding")} :
                _value'[k] = _value[k]
          /\ UNCHANGED <<notebookLineNumbers, editorConfig, layoutConfiguration, cells>> ]_vars

C18_Witness ==
    /\ last.op = "setLineNumbers"
    /\ ~last.same
    /\ Key("minimap") \in DOMAIN EditorOptionsOverride(Customizations)
    /\ _value[Key("minimap")] = EditorOptionsOverride(Customizations)[Key("minimap")]
    /\ _value[Key("minimap")] # fixedEditorOptions[Key("minimap")]
    /\ viewModel # NoModel
    /\ ReadOnlyOf(_value)

\* C19: the per-cell toggle writes the target cell's mode only (not the
\* notebook-wide setting, not another cell's mode); the notebook-wide toggle writes
\* the notebook-wide setting only and no cell's mode, so a cell's explicit mode
\* outlasts notebook-wide toggles.
C19_ToggleScopesIndependent ==
    [][ /\ last'.op = "toggleCellLineNumbers" =>
              /\ UNCHANGED <<notebookLineNumbers, editorConfig, layoutConfiguration>>
              /\ \A c \in Cells \ {last'.target} : cells'[c] = cells[c]
        /\ last'.op = "toggleLineNumbers" =>
              /\ cells' = cells
              /\ notebookLineNumbers' # notebookLineNumbers
              /\ UNCHANGED <<editorConfig, layoutConfiguration>> ]_vars

C19_Witness ==
    /\ last.op = "toggleLineNumbers"
    /\ last.after = "toggleCellLineNumbers"
    /\ triggers = 2
    /\ cells["c1"] = "on"
    /\ cells["c2"] = "off"
    /\ cells["c3"] = "inherit"

====
